---- MODULE Spec2Model ----
(***************************************************************************)
(* A model of the ledger library of personal-data-mining:                  *)
(*   src/cash_ledger.py            CashLedger, CashLedgerCollection         *)
(*   src/mint_export_reader/       TransactionsExport (same code, renamed) *)
(*   src/stock_ledger.py           StockLedger.from_trp                    *)
(*                                                                         *)
(* A ledger wraps a pandas DataFrame.  The table is modelled as a sequence *)
(* of rows in table order; every row carries its index label (Index, the   *)
(* name itertuples() gives it) and the columns date, amount, account and   *)
(* category.  Dates are whole days, amounts are integers (the code only    *)
(* compares, negates and adds them).                                       *)
(***************************************************************************)
EXTENDS Integers, Sequences, FiniteSets, TLC

VARIABLES
    df,                         \* self.df of the ledger the call is made on
    pc,                         \* where the call in progress stands
    time_window,                \* argument of transfers()
    allow_internal,             \* argument of transfers()
    invert,                     \* argument of transfers()
    transfer_transaction_mask,  \* the local mask of transfers()
    i,                          \* position of the row enumerate() has reached
    pairs,                      \* history: the (row, partner) positions marked so far
    ret,                        \* what the call on the ledger returned
    call,                       \* the filter method called on the ledger, with its arguments
    call2,                      \* the method called next, on the ledger (or on the one returned)
    ret2,                       \* what that second call returned
    heap,                       \* the DataFrame objects alive, in order of creation
    ledgers                     \* the ledger objects alive: the DataFrame each one wraps

vars == <<df, pc, time_window, allow_internal, invert,
          transfer_transaction_mask, i, pairs, ret, call, call2, ret2,
          heap, ledgers>>

\* the locals of transfers()
transferVars == <<time_window, allow_internal, invert,
                  transfer_transaction_mask, i, pairs>>

\* the record of the filter calls
filterVars == <<call, call2, ret2>>

\* the objects a sequence of calls has made
heapVars == <<heap, ledgers>>

----------------------------------------------------------------------------
(* Bounds of the model *)

\* longest table explored
MaxRows == 3

\* values a row may carry
Dates == {0, 2, 30}
Amounts == {-50, -20, 0, 50}
Accounts == {"checking", "creditcard"}
Categories == {"Food"}

\* An optional argument is a sequence: empty when the caller omits it (None),
\* else holding the value passed.
None == <<>>
Some(v) == <<v>>

\* time_window arguments a caller passes: omitted, a zero-length window, 28 days
WindowArgs == {None, Some(0), Some(28)}

----------------------------------------------------------------------------
(* Tables *)

Abs(x) == IF x < 0 THEN -x ELSE x

Range(s) == {s[p] : p \in DOMAIN s}

\* CashLedger( df ): the object wrapping the table df; None is the empty tuple
CashLedger(t) == <<t>>

\* The columns of one row
RowValues == [date: Dates, amount: Amounts, account: Accounts, category: Categories]

\* The table read_csv() builds from the rows c: labelled 0 .. n-1 (a RangeIndex)
Table(c) ==
    [p \in DOMAIN c |-> [Index    |-> p - 1,
                         date     |-> c[p].date,
                         amount   |-> c[p].amount,
                         account  |-> c[p].account,
                         category |-> c[p].category]]

\* df[ msk ]: the rows whose mask bit is set, in table order, labels kept
RECURSIVE SelectFrom(_, _, _)
SelectFrom(t, msk, p) ==
    IF p \notin DOMAIN t THEN <<>>
    ELSE (IF msk[p] THEN <<t[p]>> ELSE <<>>) \o SelectFrom(t, msk, p + 1)

Select(t, msk) == SelectFrom(t, msk, 1)

\* ~msk
Not(msk) == [p \in DOMAIN msk |-> ~msk[p]]

\* df.index.get_loc( label ): the position of the row carrying the label
get_loc(t, label) == CHOOSE p \in DOMAIN t : t[p].Index = label

Keys(t) == {t[p].Index : p \in DOMAIN t}

----------------------------------------------------------------------------
(* CashLedger.transfers / TransactionsExport.transfers *)

\* pd.to_timedelta( "7d" )
DefaultWindow == 7

\* time_window = time_window or pd.to_timedelta( "7d" )
\* Python's `or` keeps the left operand only when it is truthy: None and a
\* zero-length timedelta are both falsy.
EffectiveWindow(tw) == IF tw = None \/ tw[1] = 0 THEN DefaultWindow ELSE tw[1]

\* CandidatesAt with diff_account_msk left out
CandidatesAt_NoAccountMask(t, msk, q, w, internal) ==
    LET keep(p) ==
            /\ ~msk[p]
            /\ t[p].amount = -t[q].amount
            /\ Abs(t[p].date - t[q].date) <= w
    IN  Select([p \in DOMAIN t |-> p], [p \in DOMAIN t |-> keep(p)])

\* CandidatesAt with the window open at its end: a partner exactly time_window
\* away is not kept
CandidatesAt_StrictWindow(t, msk, q, w, internal) ==
    LET keep(p) ==
            /\ ~msk[p]
            /\ t[p].amount = -t[q].amount
            /\ (internal \/ t[p].account # t[q].account)
            /\ Abs(t[p].date - t[q].date) < w
    IN  Select([p \in DOMAIN t |-> p], [p \in DOMAIN t |-> keep(p)])

\* CandidatesAt with not_already_marked_msk left out
CandidatesAt_NoMarkedMask(t, msk, q, w, internal) ==
    LET keep(p) ==
            /\ t[p].amount = -t[q].amount
            /\ (internal \/ t[p].account # t[q].account)
            /\ Abs(t[p].date - t[q].date) <= w
    IN  Select([p \in DOMAIN t |-> p], [p \in DOMAIN t |-> keep(p)])

\* The narrowing of lines 237-249 for the row at position q: the positions, in
\* table order, of the rows left in the local df.
CandidatesAt(t, msk, q, w, internal) ==
    LET keep(p) ==
            /\ ~msk[p]                                        \* not_already_marked_msk
            /\ t[p].amount = -t[q].amount                     \* opposite_cost_msk
            /\ (internal \/ t[p].account # t[q].account)      \* diff_account_msk
            /\ Abs(t[p].date - t[q].date) <= w                \* in_range_msk
    IN  Select([p \in DOMAIN t |-> p], [p \in DOMAIN t |-> keep(p)])

\* MarkPair without line 257: the partner is not marked
MarkPair_OwnOnly(t, msk, q, cands) ==
    [msk EXCEPT ![get_loc(t, t[q].Index)] = TRUE]

\* MarkPair marking every row left in the local df, not only the first
MarkPair_All(t, msk, q, cands) ==
    [p \in DOMAIN msk |-> msk[p] \/ p = q \/ p \in Range(cands)]

\* Lines 255-257: mark the row and the first row left in the local df
MarkPair(t, msk, q, cands) ==
    LET own   == get_loc(t, t[q].Index)
        first == get_loc(t, t[cands[1]].Index)
    IN  [[msk EXCEPT ![own] = TRUE] EXCEPT ![first] = TRUE]

\* One turn of the for loop (lines 226-257) on the row at position q: the mask
\* it leaves
LoopTurn(t, msk, q, w, internal) ==
    IF msk[q] THEN msk                                        \* continue
    ELSE LET cands == CandidatesAt(t, msk, q, w, internal)
         IN  IF Len(cands) > 0 THEN MarkPair(t, msk, q, cands) ELSE msk

\* The turns of the loop from position q to the end of the table
RECURSIVE LoopFrom(_, _, _, _, _)
LoopFrom(t, msk, q, w, internal) ==
    IF q > Len(t) THEN msk
    ELSE LoopFrom(t, LoopTurn(t, msk, q, w, internal), q + 1, w, internal)

\* The whole call, lines 224-261: the table of the returned ledger
transfers(t, inv, tw, internal) ==
    LET msk == LoopFrom(t, [p \in DOMAIN t |-> FALSE], 1,
                        EffectiveWindow(tw), internal)
    IN  CashLedger(Select(t, IF inv THEN Not(msk) ELSE msk))

TypeOK ==
    /\ Len(df) <= MaxRows
    /\ pc \in {"idle", "entered", "loop", "done"}
    /\ pc \in {"loop", "done"} =>
          /\ time_window \in {DefaultWindow} \cup {tw[1] : tw \in WindowArgs \ {None}}
          /\ DOMAIN transfer_transaction_mask = DOMAIN df
          /\ i \in 1..(Len(df) + 1)

Init ==
    /\ \E n \in 0..MaxRows : \E c \in [1..n -> RowValues] :
         \* the code only compares accounts with each other, so the name of
         \* the first row's account is fixed
         /\ n > 0 => c[1].account = "checking"
         /\ df = Table(c)
    /\ pc = "idle"
    /\ time_window = None
    /\ allow_internal = TRUE
    /\ invert = FALSE
    /\ transfer_transaction_mask = <<>>
    /\ i = 0
    /\ pairs = <<>>
    /\ ret = None
    /\ call = None
    /\ call2 = None
    /\ ret2 = None
    /\ heap = <<>>
    /\ ledgers = <<>>

\* transfers( invert, time_window, allow_internal ) is called: time_window and
\* allow_internal are bound.  invert is read at line 259 only, so its value is
\* drawn there.
Call ==
    /\ pc = "idle"
    /\ \E tw \in WindowArgs, internal \in BOOLEAN :
         /\ time_window' = tw
         /\ allow_internal' = internal
    /\ pc' = "entered"
    /\ UNCHANGED <<df, invert, transfer_transaction_mask, i, pairs, ret, filterVars, heapVars>>

\* lines 224-225: the window is settled, the mask starts all False
Begin ==
    /\ pc = "entered"
    /\ time_window' = EffectiveWindow(time_window)
    /\ transfer_transaction_mask' = [p \in DOMAIN df |-> FALSE]
    /\ i' = 1
    /\ pc' = "loop"
    /\ UNCHANGED <<df, allow_internal, invert, pairs, ret, filterVars, heapVars>>

\* one turn of the for loop on a row already marked: lines 231-232
Skip ==
    /\ pc = "loop"
    /\ i <= Len(df)
    /\ transfer_transaction_mask[i]
    /\ transfer_transaction_mask' =
           LoopTurn(df, transfer_transaction_mask, i, time_window, allow_internal)
    /\ i' = i + 1
    /\ UNCHANGED <<df, pc, time_window, allow_internal, invert, pairs, ret, filterVars, heapVars>>

\* one turn of the for loop on an unmarked row: lines 237-257
Search ==
    /\ pc = "loop"
    /\ i <= Len(df)
    /\ ~transfer_transaction_mask[i]
    /\ transfer_transaction_mask' =
           LoopTurn(df, transfer_transaction_mask, i, time_window, allow_internal)
    /\ LET cands == CandidatesAt(df, transfer_transaction_mask, i,
                                 time_window, allow_internal)
       IN  pairs' = IF Len(cands) > 0 THEN Append(pairs, <<i, cands[1]>>)
                                      ELSE pairs
    /\ i' = i + 1
    /\ UNCHANGED <<df, pc, time_window, allow_internal, invert, ret, filterVars, heapVars>>

\* the loop is over: lines 259-261
Return ==
    /\ pc = "loop"
    /\ i > Len(df)
    /\ \E inv \in BOOLEAN :
         /\ invert' = inv
         /\ transfer_transaction_mask' =
                (IF inv THEN Not(transfer_transaction_mask)
                        ELSE transfer_transaction_mask)
    /\ ret' = CashLedger(Select(df, transfer_transaction_mask'))
    /\ pc' = "done"
    /\ UNCHANGED <<df, time_window, allow_internal, i, pairs, filterVars, heapVars>>

Next == Call \/ Begin \/ Skip \/ Search \/ Return

Spec == Init /\ [][Next]_vars

----------------------------------------------------------------------------
(* The mask filters of CashLedger: income, expenses, when *)

\* df.amount.sum(): 0 on an empty table
RECURSIVE total(_)
total(t) == IF t = <<>> THEN 0 ELSE Head(t).amount + total(Tail(t))

\* income with the zero-amount rows let in
income_NonNegative(t) ==
    CashLedger(Select(t, [p \in DOMAIN t |-> t[p].amount >= 0]))

\* CashLedger( self.df[ self.df.amount > 0 ].copy() )
income(t) ==
    CashLedger(Select(t, [p \in DOMAIN t |-> t[p].amount > 0]))

\* CashLedger( self.df[ self.df.amount <= 0 ].copy() )
expenses(t) ==
    CashLedger(Select(t, [p \in DOMAIN t |-> t[p].amount <= 0]))

\* when with the upper bound let in (date <= before)
when_ClosedAbove(t, after, before, inv) ==
    LET msk == [p \in DOMAIN t |->
                   /\ (after # None => t[p].date >= after[1])
                   /\ (before # None => t[p].date <= before[1])]
    IN  CashLedger(Select(t, IF inv THEN Not(msk) ELSE msk))

\* when( after, before, invert ), lines 340-349; the bounds are timestamps,
\* which pd.to_datetime() hands back unchanged
when(t, after, before, inv) ==
    LET ones == [p \in DOMAIN t |-> TRUE]
        m1   == IF after # None
                THEN [p \in DOMAIN t |-> ones[p] /\ t[p].date >= after[1]]
                ELSE ones
        m2   == IF before # None
                THEN [p \in DOMAIN t |-> m1[p] /\ t[p].date < before[1]]
                ELSE m1
    IN  CashLedger(Select(t, IF inv THEN Not(m2) ELSE m2))

\* with_amount with the lower bound open: amount > above
with_amount_OpenBelow(t, above, below, inv) ==
    LET msk == [p \in DOMAIN t |->
                   /\ (above # None => t[p].amount > above[1])
                   /\ (below # None => t[p].amount < below[1])]
    IN  CashLedger(Select(t, IF inv THEN Not(msk) ELSE msk))

\* with_amount( above, below, invert ), lines 411-418
with_amount(t, above, below, inv) ==
    LET ones == [p \in DOMAIN t |-> TRUE]
        m1   == IF above # None
                THEN [p \in DOMAIN t |-> ones[p] /\ t[p].amount >= above[1]]
                ELSE ones
        m2   == IF below # None
                THEN [p \in DOMAIN t |-> m1[p] /\ t[p].amount < below[1]]
                ELSE m1
    IN  CashLedger(Select(t, IF inv THEN Not(m2) ELSE m2))

\* the bounds a caller passes to with_amount(): omitted, or an amount
AmountArgs == {None} \cup {Some(a) : a \in Amounts}

\* the bounds a caller passes to when(): omitted, or a date
DateArgs == {None} \cup {Some(d) : d \in Dates}

\* rows that differ in date and amount
FilterRowValues ==
    [date: Dates, amount: Amounts, account: {"checking"}, category: Categories]

InitFilter ==
    /\ \E n \in 0..MaxRows : \E c \in [1..n -> FilterRowValues] : df = Table(c)
    /\ pc = "idle"
    /\ time_window = None
    /\ allow_internal = TRUE
    /\ invert = FALSE
    /\ transfer_transaction_mask = <<>>
    /\ i = 0
    /\ pairs = <<>>
    /\ ret = None
    /\ call = None
    /\ call2 = None
    /\ ret2 = None
    /\ heap = <<>>
    /\ ledgers = <<>>

\* L.income()
Income ==
    /\ pc = "idle"
    /\ ret' = income(df)
    /\ call' = [op |-> "income"]
    /\ pc' = "returned"
    /\ UNCHANGED <<df, transferVars, heapVars, call2, ret2>>

\* L.expenses()
Expenses ==
    /\ pc = "idle"
    /\ ret' = expenses(df)
    /\ call' = [op |-> "expenses"]
    /\ pc' = "returned"
    /\ UNCHANGED <<df, transferVars, heapVars, call2, ret2>>

\* L.when( after, before, invert )
When ==
    /\ pc = "idle"
    /\ \E after \in DateArgs, before \in DateArgs, inv \in BOOLEAN :
         /\ ret' = when(df, after, before, inv)
         /\ call' = [op |-> "when", after |-> after, before |-> before,
                     invert |-> inv]
    /\ pc' = "returned"
    /\ UNCHANGED <<df, transferVars, heapVars, call2, ret2>>

\* L.with_amount( above, below, invert )
WithAmount ==
    /\ pc = "idle"
    /\ \E above \in AmountArgs, below \in AmountArgs, inv \in BOOLEAN :
         /\ ret' = with_amount(df, above, below, inv)
         /\ call' = [op |-> "with_amount", above |-> above, below |-> below,
                     invert |-> inv]
    /\ pc' = "returned"
    /\ UNCHANGED <<df, transferVars, heapVars, call2, ret2>>

NextFilter == Income \/ Expenses \/ When \/ WithAmount

FilterSpec == InitFilter /\ [][NextFilter]_vars

----------------------------------------------------------------------------
(* recategorize and in_categories *)

\* categories the rows of a table carry, and those a caller recategorizes to
TableCategories == {"Food", "Gas"}
NewCategories == {"Food", "Misc"}

\* category_or_categories is a str or a collection of str
Str(v) == <<"str", v>>
Collection(S) == <<"collection", S>>
CategoryArgs ==
    {Str(c) : c \in TableCategories \cup NewCategories}
        \cup {Collection({}), Collection(TableCategories)}

\* recategorize writing the whole column: df[ "category" ] = new_category
recategorize_WholeColumn(t, other, new_category) ==
    [p \in DOMAIN t |-> [t[p] EXCEPT !.category = new_category]]

\* df.loc[ other.df.index, "category" ] = new_category, line 470
recategorize(t, other, new_category) ==
    [p \in DOMAIN t |->
        IF t[p].Index \in Keys(other[1])
        THEN [t[p] EXCEPT !.category = new_category]
        ELSE t[p]]

\* in_categories( category_or_categories, invert ), lines 494-499
in_categories(t, category_or_categories, inv) ==
    LET cats == IF category_or_categories[1] = "str"       \* isinstance( ..., str )
                THEN {category_or_categories[2]}
                ELSE category_or_categories[2]
        msk  == [p \in DOMAIN t |-> t[p].category \in cats]  \* .isin( ... )
    IN  CashLedger(Select(t, IF inv THEN Not(msk) ELSE msk))

\* rows that differ in category and amount
CategoryRowValues ==
    [date: {0}, amount: {-50, 50}, account: {"checking"}, category: TableCategories]

InitCategory ==
    /\ \E n \in 0..MaxRows : \E c \in [1..n -> CategoryRowValues] : df = Table(c)
    /\ pc = "idle"
    /\ time_window = None
    /\ allow_internal = TRUE
    /\ invert = FALSE
    /\ transfer_transaction_mask = <<>>
    /\ i = 0
    /\ pairs = <<>>
    /\ ret = None
    /\ call = None
    /\ call2 = None
    /\ ret2 = None
    /\ heap = <<>>
    /\ ledgers = <<>>

\* L.recategorize( other, new_category, inplace ), lines 466-473; other is a
\* ledger some filter made from L: a selection of L's rows
Recategorize ==
    /\ pc = "idle"
    /\ \E msk \in [DOMAIN df -> BOOLEAN], new_category \in NewCategories,
          inplace \in BOOLEAN :
         LET other == CashLedger(Select(df, msk))
             new   == recategorize(df, other, new_category)
         IN  /\ call' = [op |-> "recategorize", other |-> other,
                         new_category |-> new_category, inplace |-> inplace]
             /\ df' = IF inplace THEN new ELSE df
             /\ ret' = IF inplace THEN None ELSE CashLedger(new)
    /\ pc' = "returned"
    /\ UNCHANGED <<transferVars, heapVars, call2, ret2>>

\* L.in_categories( category_or_categories, invert )
InCategories ==
    /\ pc = "idle"
    /\ \E arg \in CategoryArgs, inv \in BOOLEAN :
         /\ ret' = in_categories(df, arg, inv)
         /\ call' = [op |-> "in_categories", category_or_categories |-> arg,
                     invert |-> inv]
    /\ pc' = "returned"
    /\ UNCHANGED <<df, transferVars, heapVars, call2, ret2>>

\* in_categories() called on the recategorized ledger: the one recategorize()
\* returned, or L itself after an in-place call
InCategoriesNext ==
    /\ pc = "returned"
    /\ call.op = "recategorize"
    /\ \E arg \in CategoryArgs, inv \in BOOLEAN :
         /\ ret2' = in_categories(IF ret = None THEN df ELSE ret[1], arg, inv)
         /\ call2' = [op |-> "in_categories", category_or_categories |-> arg,
                      invert |-> inv]
    /\ pc' = "returned2"
    /\ UNCHANGED <<df, transferVars, heapVars, ret, call>>

NextCategory == Recategorize \/ InCategories \/ InCategoriesNext

CategorySpec == InitCategory /\ [][NextCategory]_vars

----------------------------------------------------------------------------
(* Ledgers and the tables they wrap *)

\* most ledger objects a sequence of calls makes
MaxLedgers == 3

\* the table seen through ledger k
View(h, l, k) == h[l[k]]

\* CashLedger( self.df[ msk ].copy() ): the selection is a new DataFrame object
\* and the ledger returned wraps it
Wrap(h, l, t) ==
    [heap |-> Append(h, t), ledgers |-> Append(l, Len(h) + 1)]

\* recategorize without the copy of line 469: df = self.df in both branches
RecategorizeOn_NoCopy(h, l, k, other, new_category, inplace) ==
    LET written == [h EXCEPT ![l[k]] = recategorize(@, other, new_category)]
    IN  IF inplace
        THEN [heap |-> written, ledgers |-> l]
        ELSE [heap |-> written, ledgers |-> Append(l, l[k])]

\* recategorize, lines 466-473: the object written to is self.df when inplace,
\* else a copy of it that a new ledger wraps
RecategorizeOn(h, l, k, other, new_category, inplace) ==
    IF inplace
    THEN [heap |-> [h EXCEPT ![l[k]] = recategorize(@, other, new_category)],
          ledgers |-> l]
    ELSE Wrap(h, l, recategorize(h[l[k]], other, new_category))

\* rows of the first ledger: an expense in either category, an income in one
AliasRowValues ==
    {r \in CategoryRowValues : r.amount > 0 => r.category = "Gas"}

InitAlias ==
    /\ \E n \in 1..MaxRows : \E c \in [1..n -> AliasRowValues] :
          heap = <<Table(c)>>
    /\ ledgers = <<1>>
    /\ df = <<>>
    /\ pc = "idle"
    /\ time_window = None
    /\ allow_internal = TRUE
    /\ invert = FALSE
    /\ transfer_transaction_mask = <<>>
    /\ i = 0
    /\ pairs = <<>>
    /\ ret = None
    /\ call = None
    /\ call2 = None
    /\ ret2 = None

\* a filter called on ledger k returned the table t
Derived(op, k, t) ==
    /\ pc = "idle"
    /\ Len(ledgers) < MaxLedgers
    /\ LET new == Wrap(heap, ledgers, t)
       IN  /\ heap' = new.heap
           /\ ledgers' = new.ledgers
    /\ call' = [op |-> "filter", self |-> k, inplace |-> FALSE]
    /\ UNCHANGED <<df, pc, transferVars, ret, call2, ret2>>

\* D = Lk.income()
DeriveIncome ==
    \E k \in DOMAIN ledgers :
        Derived("income", k, income(View(heap, ledgers, k))[1])

\* D = Lk.expenses()
DeriveExpenses ==
    \E k \in DOMAIN ledgers :
        Derived("expenses", k, expenses(View(heap, ledgers, k))[1])

\* D = Lk.when( before=... ): every row, or none
DeriveWhen ==
    \E k \in DOMAIN ledgers, before \in {None, Some(0)} :
        Derived("when", k, when(View(heap, ledgers, k), None, before, FALSE)[1])

\* D = Lk.in_categories( c )
DeriveInCategories ==
    \E k \in DOMAIN ledgers, c \in TableCategories \cup NewCategories :
        Derived("in_categories", k,
                in_categories(View(heap, ledgers, k), Str(c), FALSE)[1])

\* D = Lk.transfers()
DeriveTransfers ==
    \E k \in DOMAIN ledgers :
        Derived("transfers", k,
                transfers(View(heap, ledgers, k), FALSE, None, TRUE)[1])

\* Lk.recategorize( Lo, new_category, inplace ); the keys of Lo are rows of Lk
\* (df.loc raises KeyError on a label the table lacks).  The sequence of calls
\* followed ends with the in-place call.
RecategorizeAlias ==
    \E k \in DOMAIN ledgers, o \in DOMAIN ledgers,
       new_category \in NewCategories, inplace \in BOOLEAN :
        /\ pc = "idle"
        /\ Keys(View(heap, ledgers, o)) \subseteq Keys(View(heap, ledgers, k))
        /\ inplace \/ Len(ledgers) < MaxLedgers
        /\ pc' = IF inplace THEN "returned" ELSE pc
        /\ LET new == RecategorizeOn(heap, ledgers, k,
                          CashLedger(View(heap, ledgers, o)), new_category, inplace)
           IN  /\ heap' = new.heap
               /\ ledgers' = new.ledgers
        /\ call' = [op |-> "recategorize", self |-> k, inplace |-> inplace]
        /\ UNCHANGED <<df, transferVars, ret, call2, ret2>>

NextAlias ==
    \/ DeriveIncome
    \/ DeriveExpenses
    \/ DeriveWhen
    \/ DeriveInCategories
    \/ DeriveTransfers
    \/ RecategorizeAlias

AliasSpec == InitAlias /\ [][NextAlias]_vars

----------------------------------------------------------------------------
(* total, by_category / by_account, CashLedgerCollection *)

\* a null grouping key (NaN)
NaN == "NaN"

\* the column names a ledger is split by
GroupColumns == {"category", "account"}

\* a groupby keeping one row per key
groupby_FirstRow(t, column) ==
    [key \in {t[p][column] : p \in DOMAIN t} \ {NaN} |->
        Select(t, [p \in DOMAIN t |->
                      /\ t[p][column] = key
                      /\ \A q \in 1..(p - 1) : t[q][column] # key])]

\* self.df.groupby( column ): one group for each value of the column, holding
\* the rows that carry it in table order; rows whose key is null are dropped
groupby(t, column) ==
    [key \in {t[p][column] : p \in DOMAIN t} \ {NaN} |->
        Select(t, [p \in DOMAIN t |-> t[p][column] = key])]

CashLedgerCollection(g) == <<g>>

\* self.groupby[ "amount" ].sum(), line 618
totals(c) == [key \in DOMAIN c[1] |-> total(c[1][key])]

\* self.groupby.size(), line 631
transaction_counts(c) == [key \in DOMAIN c[1] |-> Len(c[1][key])]

\* rows that differ in amount, account and category; a category may be null
GroupRowValues ==
    [date: {0}, amount: {-50, -20, 50}, account: Accounts,
     category: TableCategories \cup {NaN}]

InitGroup ==
    /\ \E n \in 0..MaxRows : \E c \in [1..n -> GroupRowValues] : df = Table(c)
    /\ pc = "idle"
    /\ time_window = None
    /\ allow_internal = TRUE
    /\ invert = FALSE
    /\ transfer_transaction_mask = <<>>
    /\ i = 0
    /\ pairs = <<>>
    /\ ret = None
    /\ call = None
    /\ call2 = None
    /\ ret2 = None
    /\ heap = <<>>
    /\ ledgers = <<>>

\* L.total()
Total ==
    /\ pc = "idle"
    /\ ret' = Some(total(df))
    /\ call' = [op |-> "total"]
    /\ pc' = "returned"
    /\ UNCHANGED <<df, transferVars, heapVars, call2, ret2>>

\* L.by_category()
ByCategory ==
    /\ pc = "idle"
    /\ ret' = CashLedgerCollection(groupby(df, "category"))
    /\ call' = [op |-> "by_category", column |-> "category"]
    /\ pc' = "returned"
    /\ UNCHANGED <<df, transferVars, heapVars, call2, ret2>>

\* L.by_account()
ByAccount ==
    /\ pc = "idle"
    /\ ret' = CashLedgerCollection(groupby(df, "account"))
    /\ call' = [op |-> "by_account", column |-> "account"]
    /\ pc' = "returned"
    /\ UNCHANGED <<df, transferVars, heapVars, call2, ret2>>

\* .totals() on the collection returned
Totals ==
    /\ pc = "returned"
    /\ call.op \in {"by_category", "by_account"}
    /\ ret2' = totals(ret)
    /\ call2' = [op |-> "totals"]
    /\ pc' = "returned2"
    /\ UNCHANGED <<df, transferVars, heapVars, ret, call>>

\* .transaction_counts() on the collection returned
TransactionCounts ==
    /\ pc = "returned"
    /\ call.op \in {"by_category", "by_account"}
    /\ ret2' = transaction_counts(ret)
    /\ call2' = [op |-> "transaction_counts"]
    /\ pc' = "returned2"
    /\ UNCHANGED <<df, transferVars, heapVars, ret, call>>

NextGroup == Total \/ ByCategory \/ ByAccount \/ Totals \/ TransactionCounts

GroupSpec == InitGroup /\ [][NextGroup]_vars

----------------------------------------------------------------------------
(* in_year and last_week *)

\* Dates are day numbers counted from 1 January of the first year below;
\* the rows of this part are dated 1/1/2019, 12/31/2019, 1/1/2020, 12/31/2020
\* and 1/1/2021 (2020 is a leap year).
CalendarYears == 2019..2021
YearDates == {0, 364, 365, 730, 731}

Epoch == CHOOSE y \in CalendarYears : \A z \in CalendarYears : y <= z

IsLeap(y) == (y % 4 = 0 /\ y % 100 # 0) \/ y % 400 = 0
DaysIn(y) == IF IsLeap(y) THEN 366 ELSE 365
MonthDays(y) ==
    <<31, IF IsLeap(y) THEN 29 ELSE 28, 31, 30, 31, 30, 31, 31, 30, 31, 30, 31>>

\* day number of 1 January of year y
RECURSIVE JanFirst(_)
JanFirst(y) ==
    IF y = Epoch THEN 0
    ELSE IF y > Epoch THEN JanFirst(y - 1) + DaysIn(y - 1)
    ELSE JanFirst(y + 1) - DaysIn(y)

RECURSIVE DaysBeforeMonth(_, _)
DaysBeforeMonth(y, m) ==
    IF m = 1 THEN 0 ELSE DaysBeforeMonth(y, m - 1) + MonthDays(y)[m - 1]

\* "1/1/{}".format( year ): the text month/day/year
Format(year) == <<1, 1, year>>

\* pd.to_datetime( text ) of a month/day/year text: the timestamp of that day
to_datetime(text) ==
    JanFirst(text[3]) + DaysBeforeMonth(text[3], text[1]) + (text[2] - 1)

\* the values a caller passes as year: an int, a float (whole part and
\* tenths), a str (its characters), None
IntArg(n) == <<"int", n>>
FloatArg(n, tenths) == <<"float", n, tenths>>
StrArg(chars) == <<"str", chars>>
NoneArg == <<"NoneType">>

Digits == <<"0", "1", "2", "3", "4", "5", "6", "7", "8", "9">>
DigitValue(c) == (CHOOSE k \in DOMAIN Digits : Digits[k] = c) - 1

RECURSIVE ParseDigits(_)
ParseDigits(chars) ==
    IF chars = <<>> THEN 0
    ELSE 10 * ParseDigits(SubSeq(chars, 1, Len(chars) - 1))
            + DigitValue(chars[Len(chars)])

\* int( year ): None when the conversion raises.  A float is truncated, a str
\* is converted when it is a non-empty run of digits.
int(year) ==
    CASE year[1] = "int"   -> Some(year[2])
      [] year[1] = "float" -> Some(year[2])
      [] year[1] = "str"   ->
            IF year[2] # <<>> /\ \A k \in DOMAIN year[2] : year[2][k] \in Range(Digits)
            THEN Some(ParseDigits(year[2]))
            ELSE None
      [] OTHER             -> None

\* in_year with the upper bound at 31 December of the same year
in_year_SameYear(t, year) ==
    LET y == int(year)
    IN  IF y = None
        THEN [raised |-> "ValueError", value |-> None]
        ELSE [raised |-> "",
              value  |-> when(t, Some(to_datetime(Format(y[1]))),
                                 Some(to_datetime(Format(y[1] + 1)) - 1), FALSE)]

\* in_year( year ), lines 366-370: what is raised, and what is returned
in_year(t, year) ==
    LET y == int(year)
    IN  IF y = None
        THEN [raised |-> "ValueError", value |-> None]
        ELSE [raised |-> "",
              value  |-> when(t, Some(to_datetime(Format(y[1]))),
                                 Some(to_datetime(Format(y[1] + 1))), FALSE)]

\* last_week( n ), lines 387-388, at the time now
last_week(t, n, now) ==
    LET start_date == now - (n * 7)
    IN  when(t, Some(start_date), None, FALSE)

YearArgs ==
    {IntArg(y) : y \in CalendarYears} \cup
    {FloatArg(2020, 5), StrArg(<<"2", "0", "2", "0">>), StrArg(<<"2", "0", "x">>),
     StrArg(<<>>), NoneArg}

\* datetime.now() and the n a caller passes: 1/7/2020 and the day after; this
\* week, the last week, the last 53 weeks
NowValues == {371, 372}
WeekCounts == {0, 1, 53}

\* rows that differ in date
DateRowValues ==
    [date: YearDates, amount: {-50}, account: {"checking"}, category: Categories]

InitDate ==
    /\ \E n \in 0..MaxRows : \E c \in [1..n -> DateRowValues] : df = Table(c)
    /\ pc = "idle"
    /\ time_window = None
    /\ allow_internal = TRUE
    /\ invert = FALSE
    /\ transfer_transaction_mask = <<>>
    /\ i = 0
    /\ pairs = <<>>
    /\ ret = None
    /\ call = None
    /\ call2 = None
    /\ ret2 = None
    /\ heap = <<>>
    /\ ledgers = <<>>

\* L.in_year( year ): returns a ledger, or raises and returns nothing
InYear ==
    /\ pc = "idle"
    /\ \E year \in YearArgs :
         LET r == in_year(df, year)
         IN  /\ ret' = r.value
             /\ call' = [op |-> "in_year", year |-> year, raised |-> r.raised]
    /\ pc' = "returned"
    /\ UNCHANGED <<df, transferVars, heapVars, call2, ret2>>

\* L.last_week( n ), called at the time now
LastWeek ==
    /\ pc = "idle"
    /\ \E n \in WeekCounts, now \in NowValues :
         /\ ret' = last_week(df, n, now)
         /\ call' = [op |-> "last_week", n |-> n, now |-> now]
    /\ pc' = "returned"
    /\ UNCHANGED <<df, transferVars, heapVars, call2, ret2>>

NextDate == InYear \/ LastWeek

DateSpec == InitDate /\ [][NextDate]_vars

----------------------------------------------------------------------------
(* StockLedger.from_trp: normalisation of a brokerage export *)

\* A text of the "Activity Type" column: its content, and whether the file
\* wrote it with surrounding whitespace.
Text(content, padded) == [content |-> content, padded |-> padded]
Lit(content) == Text(content, FALSE)

\* .str.strip()
strip(s) == [s EXCEPT !.padded = FALSE]

StockLedger(t) == <<t>>

\* line 61: df.loc[ stripped type == "Redemption Fee", "Activity Type" ] = "Fee"
rename_fee(t) ==
    [p \in DOMAIN t |->
        IF strip(t[p].type) = Lit("Redemption Fee")
        THEN [t[p] EXCEPT !.type = Lit("Fee")]
        ELSE t[p]]

\* the passes of the loops of lines 64-65, in order
SignPasses ==
    <<<<"Exchange Out", "amount">>, <<"Exchange Out", "shares">>,
      <<"Fee", "amount">>, <<"Fee", "shares">>>>

\* line 66 comparing the type as the file wrote it
invert_sign_NoStrip(t, transaction_type, colname) ==
    [p \in DOMAIN t |->
        IF t[p].type = Lit(transaction_type)
        THEN [t[p] EXCEPT ![colname] = -t[p][colname]]
        ELSE t[p]]

\* line 66: df.loc[ stripped type == transaction_type, colname ] = -df[ colname ]
invert_sign(t, transaction_type, colname) ==
    [p \in DOMAIN t |->
        IF strip(t[p].type) = Lit(transaction_type)
        THEN [t[p] EXCEPT ![colname] = -t[p][colname]]
        ELSE t[p]]

\* line 72: df.type = df.type.str.strip()
strip_type(t) == [p \in DOMAIN t |-> [t[p] EXCEPT !.type = strip(@)]]

\* lines 77-78
rename_exchange(t) ==
    LET t1 == [p \in DOMAIN t |->
                  IF t[p].type = Lit("Exchange In")
                  THEN [t[p] EXCEPT !.type = Lit("Exchange")] ELSE t[p]]
    IN  [p \in DOMAIN t1 |->
            IF t1[p].type = Lit("Exchange Out")
            THEN [t1[p] EXCEPT !.type = Lit("Exchange")] ELSE t1[p]]

\* the activity types of the file, as written
ActivityTypes ==
    {Text("Fee", FALSE), Text("Fee", TRUE), Text("Redemption Fee", TRUE),
     Text("Exchange In", FALSE), Text("Exchange Out", FALSE),
     Text("Exchange Out", TRUE), Text("Contribution", FALSE)}

\* rows of the file after lines 45-58: amount and shares are floats
TrpRowValues == [type: ActivityTypes, amount: {-5, 5}, shares: {2}]

TrpTable(c) ==
    [p \in DOMAIN c |->
        [Index |-> p - 1, type |-> c[p].type, amount |-> c[p].amount,
         shares |-> c[p].shares]]

\* one file has been read (line 58); call keeps what was read
InitTrp ==
    /\ \E n \in 0..MaxRows : \E c \in [1..n -> TrpRowValues] :
          /\ df = TrpTable(c)
          /\ call = [op |-> "from_trp", read |-> TrpTable(c)]
    /\ pc = "read"
    /\ time_window = None
    /\ allow_internal = TRUE
    /\ invert = FALSE
    /\ transfer_transaction_mask = <<>>
    /\ i = 0
    /\ pairs = <<>>
    /\ ret = None
    /\ call2 = None
    /\ ret2 = None
    /\ heap = <<>>
    /\ ledgers = <<>>

\* line 61
RenameFee ==
    /\ pc = "read"
    /\ df' = rename_fee(df)
    /\ i' = 1
    /\ pc' = "invert"
    /\ UNCHANGED <<time_window, allow_internal, invert,
                   transfer_transaction_mask, pairs, ret, filterVars, heapVars>>

\* one pass of line 66
InvertSign ==
    /\ pc = "invert"
    /\ df' = invert_sign(df, SignPasses[i][1], SignPasses[i][2])
    /\ i' = i + 1
    /\ pc' = IF i = Len(SignPasses) THEN "cleanup" ELSE pc
    /\ UNCHANGED <<time_window, allow_internal, invert,
                   transfer_transaction_mask, pairs, ret, filterVars, heapVars>>

\* lines 69-74
Cleanup ==
    /\ pc = "cleanup"
    /\ df' = strip_type(df)
    /\ pc' = "stripped"
    /\ UNCHANGED <<time_window, allow_internal, invert,
                   transfer_transaction_mask, i, pairs, ret, filterVars, heapVars>>

\* lines 77-84
RenameExchange ==
    /\ pc = "stripped"
    /\ df' = rename_exchange(df)
    /\ ret' = StockLedger(df')
    /\ pc' = "done"
    /\ UNCHANGED <<time_window, allow_internal, invert,
                   transfer_transaction_mask, i, pairs, filterVars, heapVars>>

NextTrp == RenameFee \/ InvertSign \/ Cleanup \/ RenameExchange

TrpSpec == InitTrp /\ [][NextTrp]_vars

----------------------------------------------------------------------------
(* Two mask filters in a row *)

\* in_accounts handing back a renumbered table: self.df[ msk ].reset_index()
in_accounts_ResetIndex(t, account_or_accounts, inv) ==
    LET accounts == IF account_or_accounts[1] = "str"
                    THEN {account_or_accounts[2]}
                    ELSE account_or_accounts[2]
        msk  == [p \in DOMAIN t |-> t[p].account \in accounts]
        kept == Select(t, IF inv THEN Not(msk) ELSE msk)
    IN  CashLedger([p \in DOMAIN kept |-> [kept[p] EXCEPT !.Index = p - 1]])

\* in_accounts( account_or_accounts, invert ), lines 439-444
in_accounts(t, account_or_accounts, inv) ==
    LET accounts == IF account_or_accounts[1] = "str"       \* isinstance( ..., str )
                    THEN {account_or_accounts[2]}
                    ELSE account_or_accounts[2]
        msk  == [p \in DOMAIN t |-> t[p].account \in accounts]  \* .isin( ... )
    IN  CashLedger(Select(t, IF inv THEN Not(msk) ELSE msk))

\* the filter calls made, each with its arguments
FilterCalls ==
    {[op |-> "income"], [op |-> "expenses"],
     [op |-> "when", after |-> Some(2), before |-> None, invert |-> FALSE],
     [op |-> "when", after |-> None, before |-> Some(2), invert |-> TRUE],
     [op |-> "with_amount", above |-> Some(0), below |-> None, invert |-> FALSE],
     [op |-> "with_amount", above |-> Some(-50), below |-> Some(50), invert |-> TRUE],
     [op |-> "in_accounts", account_or_accounts |-> Str("checking"), invert |-> FALSE],
     [op |-> "in_accounts", account_or_accounts |-> Collection({"creditcard"}),
      invert |-> TRUE],
     [op |-> "in_categories", category_or_categories |-> Str("Food"), invert |-> FALSE],
     [op |-> "in_categories", category_or_categories |-> Collection({"Food", "Misc"}),
      invert |-> TRUE]}

\* the ledger the call c returns on the table t
Apply(c, t) ==
    CASE c.op = "income"        -> income(t)
      [] c.op = "expenses"      -> expenses(t)
      [] c.op = "when"          -> when(t, c.after, c.before, c.invert)
      [] c.op = "with_amount"   -> with_amount(t, c.above, c.below, c.invert)
      [] c.op = "in_accounts"   -> in_accounts(t, c.account_or_accounts, c.invert)
      [] c.op = "in_categories" -> in_categories(t, c.category_or_categories, c.invert)

\* rows that differ in date, amount, account and category (the category is
\* "Food" on the expenses of day 0 and the incomes of day 2)
CommuteRowValues ==
    {r \in [date: {0, 2}, amount: {-50, 50}, account: Accounts,
            category: TableCategories] :
        (r.category = "Food") <=> ((r.date = 0) <=> (r.amount <= 0))}

InitCommute ==
    /\ \E n \in 0..MaxRows : \E c \in [1..n -> CommuteRowValues] : df = Table(c)
    /\ pc = "idle"
    /\ time_window = None
    /\ allow_internal = TRUE
    /\ invert = FALSE
    /\ transfer_transaction_mask = <<>>
    /\ i = 0
    /\ pairs = <<>>
    /\ ret = None
    /\ call = None
    /\ call2 = None
    /\ ret2 = None
    /\ heap = <<>>
    /\ ledgers = <<>>

\* D = L.f( ... )
FirstFilter ==
    /\ pc = "idle"
    /\ \E c \in FilterCalls :
         /\ ret' = Apply(c, df)
         /\ call' = c
    /\ pc' = "returned"
    /\ UNCHANGED <<df, transferVars, heapVars, call2, ret2>>

\* D.g( ... ), on the ledger the first call returned
SecondFilter ==
    /\ pc = "returned"
    /\ \E c \in FilterCalls :
         /\ ret2' = Apply(c, ret[1])
         /\ call2' = c
    /\ pc' = "returned2"
    /\ UNCHANGED <<df, transferVars, heapVars, ret, call>>

NextCommute == FirstFilter \/ SecondFilter

CommuteSpec == InitCommute /\ [][NextCommute]_vars

----------------------------------------------------------------------------
(* Properties of transfers(), checked under Spec *)

\* the row at position p is in the returned ledger
Returned(p) == \E k \in DOMAIN ret[1] : ret[1][k].Index = df[p].Index

\* the row at position p was marked by the loop (the mask at "done" is the one
\* line 260 may have inverted)
Marked(p) == transfer_transaction_mask[p] # invert

Opposite(a, b) == df[b].amount = -df[a].amount
WithinWindow(a, b, w) == Abs(df[b].date - df[a].date) <= w

\* the candidate-pair predicate of the documentation, for two different rows
CandidatePair(a, b) ==
    /\ a # b
    /\ Opposite(a, b)
    /\ WithinWindow(a, b, time_window)
    /\ (allow_internal \/ df[a].account # df[b].account)

\* s keeps the rows of t it holds in t's order
KeepsOrder(s, t) ==
    \A k, l \in DOMAIN s :
        k < l => get_loc(t, s[k].Index) < get_loc(t, s[l].Index)

\* C1: a row for which no other row has the negated amount within the window
\* is never marked: it is absent from transfers() and present in
\* transfers(invert=True), whatever its amount.
C1_NoCounterpartNeverMarked ==
    pc = "done" =>
        \A p \in DOMAIN df :
            (~\E q \in DOMAIN df \ {p} :
                  Opposite(p, q) /\ WithinWindow(p, q, time_window))
            => (Returned(p) <=> invert)

\* C2: default window, allow_internal=True: two rows with opposite non-zero
\* amounts at most 7 days apart, whose absolute amount no other row has, are
\* both returned by transfers(); a row whose negated amount occurs on no row
\* within 7 days of it is not returned.
C2_IsolatedPairReturned ==
    (pc = "done" /\ time_window = DefaultWindow /\ allow_internal /\ ~invert) =>
        /\ \A a, b \in DOMAIN df :
              ( /\ a # b
                /\ df[a].amount # 0
                /\ Opposite(a, b)
                /\ WithinWindow(a, b, DefaultWindow)
                /\ \A c \in DOMAIN df \ {a, b} :
                      Abs(df[c].amount) # Abs(df[a].amount) )
              => (Returned(a) /\ Returned(b))
        /\ \A p \in DOMAIN df :
              (~\E q \in DOMAIN df :
                    Opposite(p, q) /\ WithinWindow(p, q, DefaultWindow))
              => ~Returned(p)

\* the scenario: -50 checking d0, +50 creditcard d0+2, -20 checking d0+30
C2_Witness ==
    /\ pc = "done" /\ time_window = DefaultWindow /\ allow_internal /\ ~invert
    /\ Len(df) = 3
    /\ df[1].amount = -50 /\ df[1].account = "checking"   /\ df[1].date = 0
    /\ df[2].amount = 50  /\ df[2].account = "creditcard" /\ df[2].date = 2
    /\ df[3].amount = -20 /\ df[3].account = "checking"   /\ df[3].date = 30
    /\ ret = CashLedger(SubSeq(df, 1, 2))

\* C3: with allow_internal=False no recorded pair has both rows in one
\* account, and a ledger whose only opposite-amount, in-window rows share an
\* account yields an empty transfers().
C3_NoInternalPairs ==
    (pc \in {"loop", "done"} /\ ~allow_internal) =>
        /\ \A k \in DOMAIN pairs :
              df[pairs[k][1]].account # df[pairs[k][2]].account
        /\ ( /\ pc = "done" /\ ~invert
             /\ \A a, b \in DOMAIN df :
                   (a # b /\ Opposite(a, b) /\ WithinWindow(a, b, time_window))
                   => df[a].account = df[b].account )
           => ret = CashLedger(<<>>)

C3_Witness ==
    /\ pc = "done" /\ ~allow_internal /\ ~invert
    /\ \E a, b \in DOMAIN df :
          /\ a # b /\ df[a].amount # 0
          /\ Opposite(a, b) /\ WithinWindow(a, b, time_window)
          /\ df[a].account = df[b].account
    /\ ret = CashLedger(<<>>)

\* the premise of C4: three rows, all within the window of each other, each
\* amount equal to another row's amount or its negation, allow_internal=True
C4_ThreeAlike ==
    /\ pc = "done" /\ allow_internal
    /\ Len(df) = 3
    /\ \A a, b \in DOMAIN df : WithinWindow(a, b, time_window)
    /\ \A a \in DOMAIN df : \E b \in DOMAIN df \ {a} :
          df[b].amount = df[a].amount \/ df[b].amount = -df[a].amount

\* the conclusion of C4: exactly two rows are marked, the earliest row that has
\* a candidate and its first candidate; the third is alone in
\* transfers(invert=True)
C4_FirstTwoMarked ==
    LET withCand == {a \in DOMAIN df : \E b \in DOMAIN df : CandidatePair(a, b)}
    IN  /\ withCand # {}
        /\ LET first   == CHOOSE a \in withCand : \A c \in withCand : a <= c
               cands   == {b \in DOMAIN df : CandidatePair(first, b)}
               partner == CHOOSE b \in cands : \A c \in cands : b <= c
           IN  /\ {p \in DOMAIN df : Marked(p)} = {first, partner}
               /\ first # partner
               /\ invert =>
                     /\ Len(ret[1]) = 1
                     /\ ret[1][1].Index \notin {df[first].Index, df[partner].Index}

\* C4 as stated
C4_ThreeAlikeTwoMarked == C4_ThreeAlike => C4_FirstTwoMarked

\* C4, amended: ... and some row's amount is the non-zero negation of
\* another's (the three amounts are not all equal)
C4_ThreeOppositeTwoMarked ==
    ( /\ C4_ThreeAlike
      /\ \E a, b \in DOMAIN df : df[a].amount # 0 /\ Opposite(a, b) )
    => C4_FirstTwoMarked

C4_Witness ==
    /\ C4_ThreeAlike
    /\ df[1].amount = 50 /\ df[2].amount = 50 /\ df[3].amount = -50
    /\ \A p \in DOMAIN df : Marked(p) <=> p \in {1, 3}
    /\ invert /\ ret = CashLedger(<<df[2]>>)

\* C5: matching is consumed.  In every turn of the loop no mask bit is
\* cleared, a turn on a marked row records nothing, a recorded pair is made of
\* the row visited and a row unmarked until then, and the recorded pairs stay
\* pairwise disjoint.
C5_Turn ==
    (pc = "loop" /\ pc' = "loop") =>
        /\ \A p \in DOMAIN df :
              transfer_transaction_mask[p] => transfer_transaction_mask'[p]
        /\ transfer_transaction_mask[i] => pairs' = pairs
        /\ pairs' # pairs =>
              LET new == pairs'[Len(pairs')]
              IN  /\ pairs' = Append(pairs, new)
                  /\ new[1] = i
                  /\ ~transfer_transaction_mask[new[1]]
                  /\ ~transfer_transaction_mask[new[2]]
        /\ \A k, l \in DOMAIN pairs' :
              k # l => {pairs'[k][1], pairs'[k][2]} \cap
                       {pairs'[l][1], pairs'[l][2]} = {}

C5_MatchingConsumed == [][C5_Turn]_vars

\* a row finds its only candidate already consumed by an earlier pair
C5_Witness ==
    /\ pc = "loop" /\ i = 4 /\ allow_internal
    /\ Len(df) = 3
    /\ pairs = << <<1, 2>> >>
    /\ Opposite(3, 2) /\ WithinWindow(3, 2, time_window)
    /\ ~transfer_transaction_mask[3]

\* C6: the window the pass uses is the 7-day default when the caller gives
\* none, and the caller's time_window whenever one is given, a zero-length
\* one included; rows are paired only within that window.
C6_Settle ==
    /\ (pc = "entered" /\ pc' = "loop") =>
          time_window' = (IF time_window = None THEN DefaultWindow
                                                ELSE time_window[1])
    /\ (pc' \in {"loop", "done"}) =>
          \A k \in DOMAIN pairs' :
              Abs(df[pairs'[k][1]].date - df[pairs'[k][2]].date) <= time_window'

C6_WindowOverridesDefault == [][C6_Settle]_vars

\* C7: transfers(invert=True) and transfers() are disjoint by row key, cover
\* the ledger, keep its row order; every row of transfers() was marked
\* together with a second, distinct row of transfers(), so its size is even.
C7_PartitionInPairs ==
    pc = "done" =>
        LET other == Select(df, Not(transfer_transaction_mask))
            matched == {p \in DOMAIN df : Marked(p)}
        IN  /\ Keys(ret[1]) \cap Keys(other) = {}
            /\ Keys(ret[1]) \cup Keys(other) = Keys(df)
            /\ KeepsOrder(ret[1], df) /\ KeepsOrder(other, df)
            /\ Len(ret[1]) + Len(other) = Len(df)
            /\ \A p \in matched :
                  \E k \in DOMAIN pairs :
                      /\ p \in {pairs[k][1], pairs[k][2]}
                      /\ pairs[k][1] # pairs[k][2]
                      /\ pairs[k][1] \in matched /\ pairs[k][2] \in matched
            /\ Cardinality(matched) % 2 = 0

----------------------------------------------------------------------------
(* Properties of the filters, checked under FilterSpec *)

\* C8: income() and expenses() are disjoint by row key, together hold every
\* row of the ledger, zero-amount rows fall in expenses(), income().total()
\* >= 0 and expenses().total() <= 0.
C8_IncomeExpensesPartition ==
    (pc = "returned" /\ call.op \in {"income", "expenses"}) =>
        LET inc == IF call.op = "income" THEN ret[1] ELSE income(df)[1]
            exp == IF call.op = "expenses" THEN ret[1] ELSE expenses(df)[1]
        IN  /\ Keys(inc) \cap Keys(exp) = {}
            /\ Keys(inc) \cup Keys(exp) = Keys(df)
            /\ Len(inc) + Len(exp) = Len(df)
            /\ \A p \in DOMAIN df :
                  df[p].amount = 0 => df[p].Index \in Keys(exp)
            /\ Range(inc) \cup Range(exp) = Range(df)
            /\ total(inc) >= 0
            /\ total(exp) <= 0

\* income() of a ledger holding a positive, a zero and a negative amount
C8_Witness ==
    /\ pc = "returned" /\ call.op = "income"
    /\ Len(df) = 3
    /\ df[1].amount = 0 /\ df[2].amount = 50 /\ df[3].amount = -20
    /\ ret = CashLedger(<<df[2]>>)

\* the rows when(after, before) is to keep: after <= date < before
InInterval(p, after, before) ==
    /\ (after # None => df[p].date >= after[1])
    /\ (before # None => df[p].date < before[1])

\* C9: when(after=A, before=B) returns exactly the rows with A <= date < B (an
\* omitted bound is unconstrained, A may be later than B), invert=True returns
\* exactly the other rows, and the two are disjoint and together make up L.
C9_WhenHalfOpenComplement ==
    (pc = "returned" /\ call.op = "when") =>
        LET opp == when(df, call.after, call.before, ~call.invert)[1]
        IN  /\ Keys(ret[1]) =
                 {df[p].Index : p \in {q \in DOMAIN df :
                     InInterval(q, call.after, call.before) # call.invert}}
            /\ Range(ret[1]) \subseteq Range(df)
            /\ KeepsOrder(ret[1], df)
            /\ Keys(ret[1]) \cap Keys(opp) = {}
            /\ Keys(ret[1]) \cup Keys(opp) = Keys(df)
            /\ Len(ret[1]) + Len(opp) = Len(df)

\* a row dated on the lower bound is kept, a row dated on the upper is not
C9_Witness ==
    /\ pc = "returned" /\ call.op = "when" /\ ~call.invert
    /\ call.after = Some(2) /\ call.before = Some(30)
    /\ Len(df) = 3
    /\ df[1].date = 30 /\ df[2].date = 2 /\ df[3].date = 0
    /\ ret = CashLedger(<<df[2]>>)

----------------------------------------------------------------------------
(* Properties of recategorize(), checked under CategorySpec *)

\* L.recategorize( other, X ).in_categories( X ) has been evaluated
C10_Chain ==
    /\ pc = "returned2"
    /\ call.op = "recategorize" /\ ~call.inplace
    /\ call2.category_or_categories = Str(call.new_category)
    /\ ~call2.invert

\* C10: L.recategorize(other, X).in_categories(X) holds exactly the rows whose
\* keys are in other, also when L holds rows outside other of category X.
C10_ExactlyOther ==
    C10_Chain => Keys(ret2[1]) = Keys(call.other[1])

\* C10, amended: ... holds exactly the rows whose keys are in other and the
\* rows of L outside other whose category already is X.
C10_OtherAndAlreadyX ==
    C10_Chain =>
        /\ Keys(ret2[1]) =
              Keys(call.other[1]) \cup
              {df[p].Index : p \in {q \in DOMAIN df :
                                      df[q].category = call.new_category}}
        /\ \A k \in DOMAIN ret2[1] : ret2[1][k].category = call.new_category
        /\ KeepsOrder(ret2[1], df)
        /\ (\A p \in DOMAIN df :
               df[p].Index \notin Keys(call.other[1])
                   => df[p].category # call.new_category)
           => Keys(ret2[1]) = Keys(call.other[1])

\* other is one row of category Gas, a row outside other is Food already, a
\* third row is neither; X = Food
C10_Witness ==
    /\ C10_Chain
    /\ call.new_category = "Food"
    /\ Len(df) = 3
    /\ df[1].category = "Gas" /\ df[2].category = "Food" /\ df[3].category = "Gas"
    /\ call.other = CashLedger(<<df[1]>>)
    /\ Keys(ret2[1]) = {df[1].Index, df[2].Index}

\* C11: recategorize(other, X) writes the category column only, and only on
\* the rows whose key is in other; row count, row order and every other column
\* stay.  With inplace=False the receiver's table is untouched and a new
\* ledger carries the change; with inplace=True the receiver's table carries
\* it and the call returns None.
C11_Call ==
    (pc = "idle" /\ pc' = "returned" /\ call'.op = "recategorize") =>
        LET new == IF call'.inplace THEN df' ELSE ret'[1]
        IN  /\ Len(new) = Len(df)
            /\ \A p \in DOMAIN df :
                  /\ new[p].Index = df[p].Index
                  /\ new[p].date = df[p].date
                  /\ new[p].amount = df[p].amount
                  /\ new[p].account = df[p].account
                  /\ new[p].category =
                        (IF df[p].Index \in Keys(call'.other[1])
                         THEN call'.new_category ELSE df[p].category)
            /\ call'.inplace => (ret' = None)
            /\ ~call'.inplace => (df' = df /\ ret' # None)

C11_RecategorizeFrame == [][C11_Call]_vars

\* an in-place call on two rows of equal values: the one whose key is in other
\* is rewritten, its twin is not
C11_Witness ==
    /\ pc = "returned" /\ call.op = "recategorize" /\ call.inplace
    /\ ret = None
    /\ call.new_category = "Misc"
    /\ Len(df) = 2
    /\ Keys(call.other[1]) = {df[1].Index}
    /\ call.other[1][1].category = "Gas"
    /\ df[1].category = "Misc" /\ df[2].category = "Gas"
    /\ df[1].amount = df[2].amount /\ df[1].date = df[2].date

\* C12: ledgers never share a table.  Whatever calls made the ledgers alive,
\* no two of them wrap the same DataFrame object, a filter or a non-inplace
\* recategorize changes the table seen through no existing ledger, and an
\* in-place recategorize changes the table seen through its receiver only.
C12_Call ==
    /\ \A j, k \in DOMAIN ledgers' : j # k => ledgers'[j] # ledgers'[k]
    /\ \A j \in DOMAIN ledgers :
          \/ call'.inplace /\ j = call'.self
          \/ View(heap', ledgers', j) = View(heap, ledgers, j)

C12_NoSharedTable == [][C12_Call]_vars

\* the last call rewrote a category in place through the derived ledger 2;
\* the row of the same key still has its old category in the ledger it came
\* from and in the ledger derived from it
C12_Witness ==
    /\ call # None /\ call.op = "recategorize" /\ call.inplace /\ call.self = 2
    /\ Len(ledgers) = 3
    /\ \E p \in DOMAIN View(heap, ledgers, 2) :
          LET row == View(heap, ledgers, 2)[p]
          IN  /\ row.category = "Misc"
              /\ \E q \in DOMAIN View(heap, ledgers, 1) :
                    /\ View(heap, ledgers, 1)[q].Index = row.Index
                    /\ View(heap, ledgers, 1)[q].category = "Gas"
              /\ \E q \in DOMAIN View(heap, ledgers, 3) :
                    /\ View(heap, ledgers, 3)[q].Index = row.Index
                    /\ View(heap, ledgers, 3)[q].category = "Gas"

\* the sum of the values of a series
RECURSIVE SumSeries(_)
SumSeries(s) ==
    IF DOMAIN s = {} THEN 0
    ELSE LET key == CHOOSE k \in DOMAIN s : TRUE
         IN  s[key] + SumSeries([k \in DOMAIN s \ {key} |-> s[k]])

\* no row of df has a null key in the column the ledger was split by
NoNullKey == \A p \in DOMAIN df : df[p][call.column] # NaN

\* C13: when no row has a null grouping key, the group totals of
\* by_category() / by_account() add up to total(), the group sizes add up to
\* the row count and every row is in exactly one group, the one keyed by its
\* value of the column; the total of an empty ledger is 0.
C13_GroupsPartition ==
    /\ (pc = "returned" /\ call.op = "total" /\ df = <<>>) => ret = Some(0)
    /\ (pc = "returned" /\ call.op \in {"by_category", "by_account"} /\ NoNullKey) =>
          \A p \in DOMAIN df :
              \A key \in DOMAIN ret[1] :
                  (\E q \in DOMAIN ret[1][key] : ret[1][key][q] = df[p])
                      <=> key = df[p][call.column]
    /\ (pc = "returned2" /\ call2.op = "totals" /\ NoNullKey) =>
          SumSeries(ret2) = total(df)
    /\ (pc = "returned2" /\ call2.op = "transaction_counts" /\ NoNullKey) =>
          SumSeries(ret2) = Len(df)

\* two groups, one of them holding two rows of the same amount
C13_Witness ==
    /\ pc = "returned2" /\ call.op = "by_category" /\ call2.op = "totals"
    /\ NoNullKey
    /\ Len(df) = 3
    /\ DOMAIN ret2 = {"Food", "Gas"}
    /\ ret2["Food"] = -100 /\ ret2["Gas"] = 50

\* the rows with_amount(above, below) is to keep: above <= amount < below
InAmountRange(p, above, below) ==
    /\ (above # None => df[p].amount >= above[1])
    /\ (below # None => df[p].amount < below[1])

\* C14: with_amount(above=a, below=b) returns exactly the rows with
\* a <= amount < b (an omitted bound is unconstrained, a >= b leaves no row),
\* invert=True returns exactly the other rows, and the two results are
\* disjoint and together make up L.
C14_WithAmountHalfOpen ==
    (pc = "returned" /\ call.op = "with_amount") =>
        LET opp == with_amount(df, call.above, call.below, ~call.invert)[1]
        IN  /\ Keys(ret[1]) =
                 {df[p].Index : p \in {q \in DOMAIN df :
                     InAmountRange(q, call.above, call.below) # call.invert}}
            /\ Range(ret[1]) \subseteq Range(df)
            /\ KeepsOrder(ret[1], df)
            /\ (call.above # None /\ call.below # None /\ ~call.invert
                  /\ call.above[1] >= call.below[1]) => ret = CashLedger(<<>>)
            /\ Keys(ret[1]) \cap Keys(opp) = {}
            /\ Keys(ret[1]) \cup Keys(opp) = Keys(df)
            /\ Len(ret[1]) + Len(opp) = Len(df)

\* a row on the lower bound is kept, a row on the upper bound is not
C14_Witness ==
    /\ pc = "returned" /\ call.op = "with_amount" /\ ~call.invert
    /\ call.above = Some(-20) /\ call.below = Some(50)
    /\ Len(df) = 3
    /\ df[1].amount = 50 /\ df[2].amount = -20 /\ df[3].amount = -50
    /\ ret = CashLedger(<<df[2]>>)

\* the day numbers of 1 January 2019 .. 2022, from the calendar
YearStart(y) ==
    CASE y = 2019 -> 0
      [] y = 2020 -> 365
      [] y = 2021 -> 731
      [] y = 2022 -> 1096

\* the integer Python's int() gives for each year argument of the model that
\* has one
CoercedYear(year) ==
    CASE year = StrArg(<<"2", "0", "2", "0">>) -> Some(2020)
      [] year = FloatArg(2020, 5)             -> Some(2020)
      [] year[1] = "int"                       -> Some(year[2])
      [] OTHER                                 -> None

\* C15: in_year(year) raises ValueError, returns no ledger and leaves the
\* receiver as it was when year cannot be coerced to an integer; otherwise it
\* returns exactly the rows dated in that calendar year, which is
\* when(after = 1 January of the year, before = 1 January of the next).
C15_Call ==
    (pc = "idle" /\ pc' = "returned" /\ call'.op = "in_year") =>
        LET y == CoercedYear(call'.year)
        IN  /\ df' = df
            /\ y = None => (call'.raised = "ValueError" /\ ret' = None)
            /\ y # None =>
                  /\ call'.raised = ""
                  /\ ret' # None
                  /\ Range(ret'[1]) =
                        {df[p] : p \in {q \in DOMAIN df :
                            /\ YearStart(y[1]) <= df[q].date
                            /\ df[q].date < YearStart(y[1] + 1)}}
                  /\ KeepsOrder(ret'[1], df)
                  /\ ret' = when(df, Some(YearStart(y[1])),
                                     Some(YearStart(y[1] + 1)), FALSE)

C15_InYear == [][C15_Call]_vars

\* in_year( "2020" ) on rows dated 12/31/2019, 1/1/2020, 12/31/2020 (a leap
\* year's last day) and 1/1/2021 -- the middle two are returned
C15_WitnessYear ==
    /\ pc = "returned" /\ call.op = "in_year"
    /\ call.year = StrArg(<<"2", "0", "2", "0">>)
    /\ Len(df) = 3
    /\ df[1].date = 364 /\ df[2].date = 365 /\ df[3].date = 731
    /\ ret = CashLedger(<<df[2]>>)

\* in_year( "20x" ) on a ledger of three rows: ValueError, nothing returned
C15_Witness ==
    /\ pc = "returned" /\ call.op = "in_year"
    /\ call.year = StrArg(<<"2", "0", "x">>)
    /\ call.raised = "ValueError"
    /\ ret = None
    /\ Len(df) = 3

\* C17: last_week(n) returns exactly the rows dated from now - 7*n days up to
\* now; a row dated after now is not returned.
C17_LastWeekWindow ==
    (pc = "returned" /\ call.op = "last_week") =>
        Keys(ret[1]) =
            {df[p].Index : p \in {q \in DOMAIN df :
                /\ call.now - 7 * call.n <= df[q].date
                /\ df[q].date <= call.now}}

\* what last_week(n) does return: every row dated now - 7*n days or later
C17_LastWeekFrom ==
    (pc = "returned" /\ call.op = "last_week") =>
        Keys(ret[1]) =
            {df[p].Index : p \in {q \in DOMAIN df :
                call.now - 7 * call.n <= df[q].date}}

\* the type from_trp is to give a row of the file
NormalType(content) ==
    CASE content \in {"Fee", "Redemption Fee"}        -> "Fee"
      [] content \in {"Exchange In", "Exchange Out"}  -> "Exchange"
      [] OTHER                                         -> content

\* C16: from_trp negates amount and shares, both and once, on the rows whose
\* trimmed type is "Exchange Out", "Fee" or "Redemption Fee" and leaves them
\* as read on every other row; the resulting types are trimmed and none is
\* "Redemption Fee", "Exchange In" or "Exchange Out"; a non-negative amount or
\* share count of a fee or exchange-out row ends non-positive.
C16_TrpNormalised ==
    (pc = "done") =>
        /\ Len(ret[1]) = Len(call.read)
        /\ \A p \in DOMAIN call.read :
              LET read == call.read[p]
                  row  == ret[1][p]
                  out  == read.type.content \in {"Exchange Out", "Fee", "Redemption Fee"}
              IN  /\ row.amount = (IF out THEN -read.amount ELSE read.amount)
                  /\ row.shares = (IF out THEN -read.shares ELSE read.shares)
                  /\ row.type = Lit(NormalType(read.type.content))
                  /\ row.type.content \notin
                        {"Redemption Fee", "Exchange In", "Exchange Out"}
                  /\ (out /\ read.amount >= 0) => row.amount <= 0
                  /\ (out /\ read.shares >= 0) => row.shares <= 0

\* a padded "Redemption Fee", a padded "Exchange Out" and an "Exchange In"
C16_Witness ==
    /\ pc = "done"
    /\ Len(call.read) = 3
    /\ call.read[1].type = Text("Redemption Fee", TRUE)
    /\ call.read[2].type = Text("Exchange Out", TRUE)
    /\ call.read[3].type = Text("Exchange In", FALSE)
    /\ \A p \in 1..3 : call.read[p].amount = 5
    /\ ret[1][1].type = Lit("Fee") /\ ret[1][1].amount = -5 /\ ret[1][1].shares = -2
    /\ ret[1][2].type = Lit("Exchange") /\ ret[1][2].amount = -5 /\ ret[1][2].shares = -2
    /\ ret[1][3].type = Lit("Exchange") /\ ret[1][3].amount = 5 /\ ret[1][3].shares = 2

\* the rows the documentation lets row a be paired with at this point of the
\* pass: the unmarked rows other than a that form a candidate pair with it
OpenCandidates(a) ==
    {p \in DOMAIN df : ~transfer_transaction_mask[p] /\ CandidatePair(a, p)}

\* C18: first-match policy.  Rows are visited in table order; a turn on a
\* marked row marks nothing; a turn on an unmarked row i marks i and the first
\* row in table order among the unmarked rows other than i that satisfy the
\* candidate predicate, and nothing else; without such a row it marks nothing.
C18_Turn ==
    (pc = "loop" /\ pc' = "loop") =>
        /\ i' = i + 1
        /\ transfer_transaction_mask[i] =>
              transfer_transaction_mask' = transfer_transaction_mask
        /\ (~transfer_transaction_mask[i] /\ OpenCandidates(i) = {}) =>
              transfer_transaction_mask' = transfer_transaction_mask
        /\ (~transfer_transaction_mask[i] /\ OpenCandidates(i) # {}) =>
              LET j == CHOOSE p \in OpenCandidates(i) :
                           \A q \in OpenCandidates(i) : p <= q
              IN  transfer_transaction_mask' =
                      [transfer_transaction_mask EXCEPT ![i] = TRUE, ![j] = TRUE]

C18_FirstMatch == [][C18_Turn]_vars

\* the same policy on the rows of non-zero amount (a zero-amount row is its own
\* candidate)
C18_TurnNonZero ==
    (\A p \in DOMAIN df : df[p].amount # 0) => C18_Turn

C18_FirstMatchNonZero == [][C18_TurnNonZero]_vars

\* the rows the finished pass marked, and those it left
MarkedRows == Select(df, [p \in DOMAIN df |-> Marked(p)])
UnmarkedRows == Select(df, [p \in DOMAIN df |-> ~Marked(p)])

\* C19: the greedy matching is maximal.  When the pass has ended no two
\* different unmarked rows form a candidate pair, and transfers() with the same
\* window and account policy on the ledger of the unmarked rows,
\* L.transfers(invert=True), returns no row.
C19_Maximal ==
    (pc = "done") =>
        /\ \A a, b \in DOMAIN df :
              (~Marked(a) /\ ~Marked(b)) => ~CandidatePair(a, b)
        /\ transfers(UnmarkedRows, FALSE, Some(time_window), allow_internal)
              = CashLedger(<<>>)

\* a pair is marked and two rows of opposite amounts, too far apart for the
\* window of 28 days, are left
C19_Witness ==
    /\ pc = "done" /\ invert /\ allow_internal /\ time_window = 28
    /\ Len(df) = 3
    /\ df[1].amount = 50 /\ df[2].amount = -50 /\ df[3].amount = -50
    /\ df[1].date = 30 /\ df[2].date = 0 /\ df[3].date = 2
    /\ pairs = << <<1, 3>> >>
    /\ ret = CashLedger(<<df[2]>>)

\* C20: transfers() is idempotent: transfers() with the same window and account
\* policy on the ledger L.transfers() returned gives back every row of it.
C20_Idempotent ==
    (pc = "done") =>
        transfers(MarkedRows, FALSE, Some(time_window), allow_internal)
            = CashLedger(MarkedRows)

\* the first and the last of three rows are the pair returned, and re-pairing
\* them alone needs the key lookup on a table whose keys are 0 and 2
C20_Witness ==
    /\ pc = "done" /\ ~invert
    /\ Len(df) = 3
    /\ pairs = << <<1, 3>> >>
    /\ df[1].amount = 50 /\ df[2].amount = 50 /\ df[3].amount = -50
    /\ ret = CashLedger(<<df[1], df[3]>>)

\* C21: a row of non-zero amount is only ever paired forwards.  While the pass
\* runs, every pair recorded for a row of non-zero amount has its partner
\* strictly after the row in table order, and when the row about to be visited
\* is unmarked and of non-zero amount none of the rows the narrowing leaves
\* for it precedes it.
C21_PartnerAfter ==
    (pc \in {"loop", "done"}) =>
        /\ \A k \in DOMAIN pairs :
              df[pairs[k][1]].amount # 0 => pairs[k][2] > pairs[k][1]
        /\ (pc = "loop" /\ i \in DOMAIN df /\ ~transfer_transaction_mask[i]
              /\ df[i].amount # 0) =>
              \A p \in Range(CandidatesAt(df, transfer_transaction_mask, i,
                                          time_window, allow_internal)) : p > i

\* the second row is paired with the third while the first row, which
\* precedes it and has the second row's amount, is still unmarked
C21_Witness ==
    /\ pc = "done" /\ allow_internal
    /\ Len(df) = 3
    /\ df[1].amount = -50 /\ df[2].amount = -50 /\ df[3].amount = 50
    /\ df[1].date = 30 /\ df[2].date = 0 /\ df[3].date = 2
    /\ time_window = 7
    /\ pairs = << <<2, 3>> >>
    /\ ~Marked(1)

\* the row satisfies the predicate of the filter call c
Satisfies(row, c) ==
    CASE c.op = "income"        -> row.amount > 0
      [] c.op = "expenses"      -> row.amount <= 0
      [] c.op = "when"          ->
            ((c.after # None => row.date >= c.after[1])
                /\ (c.before # None => row.date < c.before[1])) # c.invert
      [] c.op = "with_amount"   ->
            ((c.above # None => row.amount >= c.above[1])
                /\ (c.below # None => row.amount < c.below[1])) # c.invert
      [] c.op = "in_accounts"   ->
            (row.account \in (IF c.account_or_accounts[1] = "str"
                              THEN {c.account_or_accounts[2]}
                              ELSE c.account_or_accounts[2])) # c.invert
      [] c.op = "in_categories" ->
            (row.category \in (IF c.category_or_categories[1] = "str"
                               THEN {c.category_or_categories[2]}
                               ELSE c.category_or_categories[2])) # c.invert

\* C22: the mask filters commute and keep the row order.  For two filter calls
\* f then g on a ledger, the result is the table g then f gives, and it holds
\* exactly the rows of the ledger that satisfy both predicates, with their
\* keys, in the ledger's order.
C22_FiltersCommute ==
    (pc = "returned2") =>
        /\ ret2 = Apply(call, Apply(call2, df)[1])
        /\ Range(ret2[1]) =
              {df[p] : p \in {q \in DOMAIN df :
                  Satisfies(df[q], call) /\ Satisfies(df[q], call2)}}
        /\ Len(ret2[1]) = Cardinality(Range(ret2[1]))
        /\ KeepsOrder(ret2[1], df)

\* in_accounts then when on three rows: the first and the last are kept, and
\* neither filter alone keeps just those
C22_Witness ==
    /\ pc = "returned2"
    /\ call.op = "in_accounts" /\ ~call.invert
    /\ call2.op = "when" /\ ~call2.invert
    /\ Len(df) = 3
    /\ Len(ret[1]) = 2 /\ ret[1] = <<df[1], df[3]>>
    /\ ret2 = CashLedger(<<df[3]>>)
    /\ df[2].date = 2

====
